---------------------------- MODULE Spec2Model ----------------------------
(***************************************************************************)
(* Model of analysis/coverage_data_utils.py.                               *)
(*                                                                         *)
(* Two specifications share the module:                                    *)
(*   Spec     get_covered_regions_dict: the coordinator, the retrieval     *)
(*            tasks the worker pool runs for it, the scratch directory,    *)
(*            and the aggregate table computed from the returned map.      *)
(*   AggSpec  the set-algebra functions applied to bounded inputs:         *)
(*            get_unique_region_dict, get_unique_region_cov_df and         *)
(*            get_pairwise_unique_coverage_table.                          *)
(*                                                                         *)
(* Names and file names are sequences of characters, so that the key       *)
(* encoding, its decoding by str.split and the scratch file names are      *)
(* computed, not assumed.  A Python dict is a sequence of entries with     *)
(* distinct keys, in insertion order.                                      *)
(***************************************************************************)
EXTENDS Naturals, Sequences, FiniteSets

VARIABLES
    experiment_df,         \* the rows (fuzzer, benchmark) of the experiment
    filestore,             \* remote store: what cp does for each pair
    pc,                    \* position of get_covered_regions_dict
    covered_regions_dict,  \* the combined map being built
    bench_idx,             \* index of the next benchmark of the for loop
    temp_dir,              \* TRUE while the TemporaryDirectory exists
    scratch,               \* files of temp_dir: file name -> content
    tasks,                 \* the batch given to pool.map, one record per task
    agg_df,                \* result of get_benchmark_aggregated_cov_df
    agg_benchmark,         \* the benchmark agg_df was computed for
    benchmark_coverage_dict, \* input: fuzzer -> set of regions (one benchmark)
    fuzzer_names,          \* input: caller-supplied list of fuzzer names
    op,                    \* the function AggSpec applied last
    unique_region_dict,    \* result of get_unique_region_dict
    unique_region_cov_df,  \* result of get_unique_region_cov_df
    pairwise_table         \* result of get_pairwise_unique_coverage_table

vars == << experiment_df, filestore, pc, covered_regions_dict, bench_idx,
           temp_dir, scratch, tasks, agg_df, agg_benchmark,
           benchmark_coverage_dict, fuzzer_names, op, unique_region_dict,
           unique_region_cov_df, pairwise_table >>

retrievalVars == << experiment_df, filestore, pc, covered_regions_dict,
                    bench_idx, temp_dir, scratch, tasks, agg_df,
                    agg_benchmark >>

aggVars == << benchmark_coverage_dict, fuzzer_names, op, unique_region_dict,
              unique_region_cov_df, pairwise_table >>

-----------------------------------------------------------------------------
(* Bounds and the universe of names.                                       *)

MaxRows == 3        \* rows of experiment_df
NumRegions == 3     \* regions a fuzzer of AggSpec may cover
MaxNames == 2       \* length of the caller-supplied fuzzer-name list

\* Whitespace-free names.  '-' occurs in names, so that
\* "a-x" on "z" and "a" on "x-z" share the scratch file name "a-x-z-...".
Fuzzers == { <<"a">>, <<"a", "-", "x">> }
Benchmarks == { <<"z">>, <<"x", "-", "z">> }

Rows == [fuzzer : Fuzzers, benchmark : Benchmarks]

\* A region is a JSON array of fixed arity; here [start, end].
Region(i) == <<i, i + 1>>
Regions == { Region(i) : i \in 1..NumRegions }

\* The covered_regions.json documents the remote store may hold: a JSON
\* array of regions, possibly repeating a region.
JsonDocs == { <<>>, <<Region(1)>>, <<Region(1), Region(1)>>,
              <<Region(1), Region(2)>> }

\* What the scratch file holds after a successful copy: a JSON document, or
\* bytes json.load rejects.
FileContents == { [ok |-> TRUE, json |-> d] : d \in JsonDocs }
                  \cup { [ok |-> FALSE, json |-> <<>>] }

\* What filestore_utils.cp(src, dst, expect_zero=False) does for one pair: a
\* non-zero retcode, or retcode 0 and the body written to dst.
Outcomes == { [retcode |-> 1, body |-> [ok |-> FALSE, json |-> <<>>]] }
              \cup { [retcode |-> 0, body |-> c] : c \in FileContents }

-----------------------------------------------------------------------------
(* Python values.                                                          *)

\* dict: d[k] = v keeps the position of an existing key, appends a new one.
DictKeys(d) == { d[i].key : i \in DOMAIN d }

DictHas(d, k) == k \in DictKeys(d)

DictGet(d, k) == d[CHOOSE i \in DOMAIN d : d[i].key = k].val

DictSet(d, k, v) ==
    IF DictHas(d, k)
    THEN [i \in DOMAIN d |-> IF d[i].key = k THEN [key |-> k, val |-> v]
                                              ELSE d[i]]
    ELSE Append(d, [key |-> k, val |-> v])

\* Series.unique(): the distinct values in order of first appearance.
unique(s) ==
    LET F[i \in 0..Len(s)] ==
            IF i = 0 THEN <<>>
            ELSE IF \E j \in DOMAIN F[i - 1] : F[i - 1][j] = s[i]
                 THEN F[i - 1]
                 ELSE Append(F[i - 1], s[i])
    IN  F[Len(s)]

IsSpace(c) == c \in {" ", "\t", "\n"}

\* str.split(): the maximal runs of non-whitespace characters.
RECURSIVE StrSplit(_, _, _)
StrSplit(s, cur, acc) ==
    IF s = <<>>
    THEN IF cur = <<>> THEN acc ELSE Append(acc, cur)
    ELSE IF IsSpace(Head(s))
         THEN StrSplit(Tail(s), <<>>,
                       IF cur = <<>> THEN acc ELSE Append(acc, cur))
         ELSE StrSplit(Tail(s), Append(cur, Head(s)), acc)

split(s) == StrSplit(s, <<>>, <<>>)

\* tuple(region): the elements of the JSON array, in order.
tuple(region) == [i \in 1..Len(region) |-> region[i]]

-----------------------------------------------------------------------------
(* Retrieval: get_covered_regions_dict and its tasks.                      *)

\* Variant: the key without its separator.
get_fuzzer_benchmark_key_nosep(fuzzer, benchmark) == fuzzer \o benchmark

\* fuzzer + ' ' + benchmark
get_fuzzer_benchmark_key(fuzzer, benchmark) == fuzzer \o <<" ">> \o benchmark

\* Variant: a file name that leaves the fuzzer out.
dst_file_shared(fuzzer, benchmark) == benchmark \o <<"-coverage.json">>

\* '{}-{}-coverage.json'.format(fuzzer, benchmark), inside temp_dir.
dst_file(fuzzer, benchmark) ==
    fuzzer \o <<"-">> \o benchmark \o <<"-coverage.json">>

\* experiment_df.benchmark.unique()
benchmarks == unique([i \in DOMAIN experiment_df |-> experiment_df[i].benchmark])

\* experiment_df[experiment_df.benchmark == benchmark].fuzzer.unique()
benchmark_fuzzers(benchmark) ==
    LET benchmark_df == SelectSeq(experiment_df,
                                  LAMBDA r : r.benchmark = benchmark)
    IN  unique([i \in DOMAIN benchmark_df |-> benchmark_df[i].fuzzer])

\* The arguments list of one benchmark, one queued task per fuzzer.  A task
\* record also holds its progress: st, the scratch file it uses, and the
\* (key, regions) it returns.
arguments(benchmark) ==
    LET fuzzers == benchmark_fuzzers(benchmark)
    IN  [i \in DOMAIN fuzzers |->
            [fuzzer |-> fuzzers[i], benchmark |-> benchmark,
             st |-> "queued", file |-> <<>>, key |-> <<>>,
             regions |-> <<>>]]

Running(i) == tasks[i].st \in {"copying", "reading"}

Finished(i) == tasks[i].st \in {"done", "raised"}

\* Variant: pool.map returning as soon as some task has finished.
BatchShortcut == \E i \in DOMAIN tasks : Finished(i)

\* pool.map returns (or raises) once every task of the batch has finished:
\* multiprocessing's map considers its result ready only when all jobs are
\* done, also after a job failed.
BatchComplete == \A i \in DOMAIN tasks : Finished(i)

RetrievalInit ==
    /\ experiment_df \in UNION { [1..n -> Rows] : n \in 1..MaxRows }
    /\ filestore \in [ { experiment_df[i] : i \in DOMAIN experiment_df }
                         -> Outcomes ]
    /\ pc = "start"
    /\ covered_regions_dict = <<>>
    /\ bench_idx = 1
    /\ temp_dir = FALSE
    /\ scratch = <<>>
    /\ tasks = <<>>
    /\ agg_df = [exc |-> "", rows |-> <<>>]
    /\ agg_benchmark = <<>>

AggIdle ==
    /\ benchmark_coverage_dict = <<>>
    /\ fuzzer_names = <<>>
    /\ op = "none"
    /\ unique_region_dict = <<>>
    /\ unique_region_cov_df = <<>>
    /\ pairwise_table = [exc |-> "", index |-> <<>>, columns |-> <<>>,
                         values |-> <<>>]

Init == RetrievalInit /\ AggIdle

\* with tempfile.TemporaryDirectory() as temp_dir:
EnterWith ==
    /\ pc = "start"
    /\ pc' = "loop"
    /\ temp_dir' = TRUE
    /\ scratch' = <<>>
    /\ UNCHANGED << experiment_df, filestore, covered_regions_dict, bench_idx,
                    tasks, agg_df, agg_benchmark >>
    /\ UNCHANGED aggVars

\* for benchmark in benchmarks: build arguments and call pool.map.
DispatchBatch ==
    /\ pc = "loop"
    /\ bench_idx <= Len(benchmarks)
    /\ tasks' = arguments(benchmarks[bench_idx])
    /\ pc' = "map"
    /\ UNCHANGED << experiment_df, filestore, covered_regions_dict, bench_idx,
                    temp_dir, scratch, agg_df, agg_benchmark >>
    /\ UNCHANGED aggVars

\* A worker takes task i and enters filestore_utils.cp, which writes dst_file.
CpStart(i) ==
    /\ pc = "map"
    /\ tasks[i].st = "queued"
    /\ tasks' = [tasks EXCEPT
                   ![i].st = "copying",
                   ![i].file = dst_file(tasks[i].fuzzer, tasks[i].benchmark)]
    /\ UNCHANGED << experiment_df, filestore, pc, covered_regions_dict,
                    bench_idx, temp_dir, scratch, agg_df, agg_benchmark >>
    /\ UNCHANGED aggVars

\* Variant: the retcode of cp is ignored and the task goes on to open the file.
CpFailIgnored(i) ==
    /\ pc = "map"
    /\ tasks[i].st = "copying"
    /\ filestore[[fuzzer |-> tasks[i].fuzzer,
                  benchmark |-> tasks[i].benchmark]].retcode # 0
    /\ tasks' = [tasks EXCEPT ![i].st = "reading"]
    /\ UNCHANGED << experiment_df, filestore, pc, covered_regions_dict,
                    bench_idx, temp_dir, scratch, agg_df, agg_benchmark >>
    /\ UNCHANGED aggVars

\* cp returned a non-zero retcode: get_fuzzer_covered_regions returns {} and
\* the task returns (key, {}).  The empty dict is the empty collection <<>>.
CpFail(i) ==
    /\ pc = "map"
    /\ tasks[i].st = "copying"
    /\ filestore[[fuzzer |-> tasks[i].fuzzer,
                  benchmark |-> tasks[i].benchmark]].retcode # 0
    /\ tasks' = [tasks EXCEPT
                   ![i].st = "done",
                   ![i].key = get_fuzzer_benchmark_key(tasks[i].fuzzer,
                                                       tasks[i].benchmark),
                   ![i].regions = <<>>]
    /\ UNCHANGED << experiment_df, filestore, pc, covered_regions_dict,
                    bench_idx, temp_dir, scratch, agg_df, agg_benchmark >>
    /\ UNCHANGED aggVars

\* cp returned 0: dst_file now holds the remote body; the task opens it.
CpOk(i) ==
    /\ pc = "map"
    /\ tasks[i].st = "copying"
    /\ LET out == filestore[[fuzzer |-> tasks[i].fuzzer,
                             benchmark |-> tasks[i].benchmark]]
       IN  /\ out.retcode = 0
           /\ scratch' = DictSet(scratch, tasks[i].file, out.body)
    /\ tasks' = [tasks EXCEPT ![i].st = "reading"]
    /\ UNCHANGED << experiment_df, filestore, pc, covered_regions_dict,
                    bench_idx, temp_dir, agg_df, agg_benchmark >>
    /\ UNCHANGED aggVars

\* with open(dst_file) as json_file: return json.load(json_file)
\* open raises when the file is missing, json.load when it is malformed.
JsonLoad(i) ==
    /\ pc = "map"
    /\ tasks[i].st = "reading"
    /\ LET dst == tasks[i].file
       IN  IF temp_dir /\ DictHas(scratch, dst) /\ DictGet(scratch, dst).ok
           THEN tasks' = [tasks EXCEPT
                            ![i].st = "done",
                            ![i].key = get_fuzzer_benchmark_key(
                                           tasks[i].fuzzer, tasks[i].benchmark),
                            ![i].regions = DictGet(scratch, dst).json]
           ELSE tasks' = [tasks EXCEPT ![i].st = "raised"]
    /\ UNCHANGED << experiment_df, filestore, pc, covered_regions_dict,
                    bench_idx, temp_dir, scratch, agg_df, agg_benchmark >>
    /\ UNCHANGED aggVars

\* for fuzzer_benchmark_key, covered_regions in results:
\*     covered_regions_dict[fuzzer_benchmark_key] = covered_regions
Integrate(d, results) ==
    LET F[i \in 0..Len(results)] ==
            IF i = 0 THEN d
            ELSE IF results[i].st = "done"
                 THEN DictSet(F[i - 1], results[i].key, results[i].regions)
                 ELSE F[i - 1]
    IN  F[Len(results)]

\* pool.map returns the results of the batch; they are merged into the map.
MapReturn ==
    /\ pc = "map"
    /\ BatchComplete
    /\ \A i \in DOMAIN tasks : tasks[i].st # "raised"
    /\ covered_regions_dict' = Integrate(covered_regions_dict, tasks)
    /\ bench_idx' = bench_idx + 1
    /\ tasks' = <<>>
    /\ pc' = "loop"
    /\ UNCHANGED << experiment_df, filestore, temp_dir, scratch, agg_df,
                    agg_benchmark >>
    /\ UNCHANGED aggVars

\* Variant: the exception leaves the call without the directory being deleted
\* (mkdtemp and a trailing rmtree instead of the with block).
MapRaiseLeak ==
    /\ pc = "map"
    /\ BatchComplete
    /\ \E i \in DOMAIN tasks : tasks[i].st = "raised"
    /\ tasks' = <<>>
    /\ pc' = "raised"
    /\ UNCHANGED << experiment_df, filestore, covered_regions_dict, bench_idx,
                    temp_dir, scratch, agg_df, agg_benchmark >>
    /\ UNCHANGED aggVars

\* pool.map re-raises a task's exception; leaving the with block deletes
\* temp_dir, and the exception leaves get_covered_regions_dict.
MapRaise ==
    /\ pc = "map"
    /\ BatchComplete
    /\ \E i \in DOMAIN tasks : tasks[i].st = "raised"
    /\ tasks' = <<>>
    /\ temp_dir' = FALSE
    /\ scratch' = <<>>
    /\ pc' = "raised"
    /\ UNCHANGED << experiment_df, filestore, covered_regions_dict, bench_idx,
                    agg_df, agg_benchmark >>
    /\ UNCHANGED aggVars

\* The for loop is exhausted: the with block deletes temp_dir and the map is
\* returned.
LoopEnd ==
    /\ pc = "loop"
    /\ bench_idx > Len(benchmarks)
    /\ temp_dir' = FALSE
    /\ scratch' = <<>>
    /\ pc' = "returned"
    /\ UNCHANGED << experiment_df, filestore, covered_regions_dict, bench_idx,
                    tasks, agg_df, agg_benchmark >>
    /\ UNCHANGED aggVars

-----------------------------------------------------------------------------
(* Aggregation over the combined map.                                      *)

\* len(covered_regions) of a list (or of the empty dict of a failed fetch).
len(covered_regions) == Len(covered_regions)

\* The set of tuple(region) for region in covered_regions.
covered_regions_in_set(covered_regions) ==
    { tuple(covered_regions[i]) : i \in DOMAIN covered_regions }

\* 'current_fuzzer, current_benchmark = key_pair.split()' raises ValueError
\* unless the key has exactly two tokens.
Unpackable(coverage_dict) ==
    \A i \in DOMAIN coverage_dict : Len(split(coverage_dict[i].key)) = 2

get_benchmark_cov_dict(coverage_dict, benchmark) ==
    LET F[i \in 0..Len(coverage_dict)] ==
            IF i = 0 THEN <<>>
            ELSE LET toks == split(coverage_dict[i].key)
                 IN  IF toks[2] = benchmark
                     THEN DictSet(F[i - 1], toks[1],
                                  covered_regions_in_set(coverage_dict[i].val))
                     ELSE F[i - 1]
    IN  IF Unpackable(coverage_dict)
        THEN [exc |-> "", dict |-> F[Len(coverage_dict)]]
        ELSE [exc |-> "ValueError", dict |-> <<>>]

get_benchmark_aggregated_cov_df(coverage_dict, benchmark) ==
    LET F[i \in 0..Len(coverage_dict)] ==
            IF i = 0 THEN <<>>
            ELSE LET toks == split(coverage_dict[i].key)
                 IN  IF toks[2] = benchmark
                     THEN Append(F[i - 1],
                                 [fuzzer |-> toks[1],
                                  aggregated_edges_covered |->
                                      len(coverage_dict[i].val)])
                     ELSE F[i - 1]
    IN  IF Unpackable(coverage_dict)
        THEN [exc |-> "", rows |-> F[Len(coverage_dict)]]
        ELSE [exc |-> "ValueError", rows |-> <<>>]

\* The caller computes the aggregate table of one benchmark from the map
\* get_covered_regions_dict returned.
Aggregate(benchmark) ==
    /\ pc = "returned"
    /\ agg_df' = get_benchmark_aggregated_cov_df(covered_regions_dict,
                                                 benchmark)
    /\ agg_benchmark' = benchmark
    /\ pc' = "aggregated"
    /\ UNCHANGED << experiment_df, filestore, covered_regions_dict, bench_idx,
                    temp_dir, scratch, tasks >>
    /\ UNCHANGED aggVars

Next ==
    \/ EnterWith
    \/ DispatchBatch
    \/ \E i \in DOMAIN tasks : CpStart(i)
    \/ \E i \in DOMAIN tasks : CpFail(i)
    \/ \E i \in DOMAIN tasks : CpOk(i)
    \/ \E i \in DOMAIN tasks : JsonLoad(i)
    \/ MapReturn
    \/ MapRaise
    \/ LoopEnd
    \/ \E b \in Benchmarks : Aggregate(b)

Spec == Init /\ [][Next]_vars

-----------------------------------------------------------------------------
(* Set algebra over the region sets of one benchmark.                      *)

threshold_count == 1

\* The fuzzers of a dict, in iteration order.
Keys(d) == [i \in DOMAIN d |-> d[i].key]

\* region_dict after the first loop: every region of some fuzzer's set, with
\* the fuzzers whose set holds it, in the order the dict yields them.
region_dict(coverage) ==
    [region \in UNION { coverage[i].val : i \in DOMAIN coverage } |->
        SelectSeq(Keys(coverage), LAMBDA f : region \in DictGet(coverage, f))]

\* Variant: the threshold test written < instead of <=.
get_unique_region_dict_strict(coverage) ==
    LET rd == region_dict(coverage)
    IN  [region \in { r \in DOMAIN rd : Len(rd[r]) < threshold_count } |->
            rd[region]]

\* The regions of region_dict with at most threshold_count fuzzers.
get_unique_region_dict(coverage) ==
    LET rd == region_dict(coverage)
    IN  [region \in { r \in DOMAIN rd : Len(rd[r]) <= threshold_count } |->
            rd[region]]

\* fuzzers[fuzzer] after the loops of get_unique_region_cov_df: one increment
\* for every occurrence of fuzzer in an owner list; a defaultdict(int), so 0
\* for a fuzzer never incremented.
RECURSIVE CountOwned(_, _, _)
CountOwned(index, regions, fuzzer) ==
    IF regions = {} THEN 0
    ELSE LET region == CHOOSE r \in regions : TRUE
         IN  Len(SelectSeq(index[region], LAMBDA f : f = fuzzer))
             + CountOwned(index, regions \ {region}, fuzzer)

\* Variant: only the fuzzers that own a region get a row.
get_unique_region_cov_df_owners_only(index, names) ==
    LET rows == [i \in DOMAIN names |->
                    [fuzzer |-> names[i],
                     unique_regions_covered |->
                         CountOwned(index, DOMAIN index, names[i])]]
    IN  SelectSeq(rows, LAMBDA row : row.unique_regions_covered > 0)

\* One row per name of fuzzer_names, in order, with fuzzers[fuzzer].
get_unique_region_cov_df(index, names) ==
    [i \in DOMAIN names |->
        [fuzzer |-> names[i],
         unique_regions_covered |-> CountOwned(index, DOMAIN index, names[i])]]

\* Variant: the row's regions that the column lacks.
get_unique_covered_percentage_swapped(row_regions, col_regions) ==
    Cardinality(row_regions \ col_regions)

\* The loop over fuzzer_col_covered_regions, counting the regions not in
\* fuzzer_row_covered_regions.
RECURSIVE get_unique_covered_percentage(_, _)
get_unique_covered_percentage(row_regions, col_regions) ==
    IF col_regions = {} THEN 0
    ELSE LET region == CHOOSE r \in col_regions : TRUE
         IN  (IF region \notin row_regions THEN 1 ELSE 0)
             + get_unique_covered_percentage(row_regions,
                                             col_regions \ {region})

\* benchmark_coverage_dict[fuzzer] of a plain dict raises KeyError for a
\* fuzzer that is no key of it.
get_pairwise_unique_coverage_table(coverage, fuzzers) ==
    IF \E i \in DOMAIN fuzzers : ~DictHas(coverage, fuzzers[i])
    THEN [exc |-> "KeyError", index |-> <<>>, columns |-> <<>>,
          values |-> <<>>]
    ELSE [exc |-> "", index |-> fuzzers, columns |-> fuzzers,
          values |->
              [r \in DOMAIN fuzzers |->
                  [c \in DOMAIN fuzzers |->
                      get_unique_covered_percentage(
                          DictGet(coverage, fuzzers[r]),
                          DictGet(coverage, fuzzers[c]))]]]

\* The per-fuzzer region-set mappings of one benchmark: distinct fuzzers, in
\* any order, each with a set of regions.
CoverageDicts ==
    { d \in UNION { [1..n -> [key : Fuzzers, val : SUBSET Regions]] :
                        n \in 0..Cardinality(Fuzzers) } :
        \A i, j \in DOMAIN d : i # j => d[i].key # d[j].key }

RetrievalIdle ==
    /\ experiment_df = <<>>
    /\ filestore = <<>>
    /\ pc = "idle"
    /\ covered_regions_dict = <<>>
    /\ bench_idx = 1
    /\ temp_dir = FALSE
    /\ scratch = <<>>
    /\ tasks = <<>>
    /\ agg_df = [exc |-> "", rows |-> <<>>]
    /\ agg_benchmark = <<>>

AggInit ==
    /\ RetrievalIdle
    /\ benchmark_coverage_dict \in CoverageDicts
    /\ fuzzer_names \in UNION { [1..n -> Fuzzers] : n \in 0..MaxNames }
    /\ op = "none"
    /\ unique_region_dict = <<>>
    /\ unique_region_cov_df = <<>>
    /\ pairwise_table = [exc |-> "", index |-> <<>>, columns |-> <<>>,
                         values |-> <<>>]

UniqueRegionDict ==
    /\ op = "none"
    /\ unique_region_dict' = get_unique_region_dict(benchmark_coverage_dict)
    /\ op' = "unique_region_dict"
    /\ UNCHANGED << benchmark_coverage_dict, fuzzer_names,
                    unique_region_cov_df, pairwise_table >>
    /\ UNCHANGED retrievalVars

UniqueRegionCovDf ==
    /\ op = "unique_region_dict"
    /\ unique_region_cov_df' =
           get_unique_region_cov_df(unique_region_dict, fuzzer_names)
    /\ op' = "unique_region_cov_df"
    /\ UNCHANGED << benchmark_coverage_dict, fuzzer_names, unique_region_dict,
                    pairwise_table >>
    /\ UNCHANGED retrievalVars

PairwiseTable ==
    /\ op = "none"
    /\ pairwise_table' =
           get_pairwise_unique_coverage_table(benchmark_coverage_dict,
                                              fuzzer_names)
    /\ op' = "pairwise"
    /\ UNCHANGED << benchmark_coverage_dict, fuzzer_names, unique_region_dict,
                    unique_region_cov_df >>
    /\ UNCHANGED retrievalVars

AggNext ==
    \/ UniqueRegionDict
    \/ UniqueRegionCovDf
    \/ PairwiseTable

AggSpec == AggInit /\ [][AggNext]_vars

-----------------------------------------------------------------------------
(* Properties of the set algebra (checked under AggSpec).                  *)

\* The region set the mapping holds for a fuzzer it has as a key.
RegionSetOf(fuzzer) == DictGet(benchmark_coverage_dict, fuzzer)

\* The region set of a fuzzer, a fuzzer that is no key counting as empty.
RegionSetOrEmpty(fuzzer) ==
    IF DictHas(benchmark_coverage_dict, fuzzer) THEN RegionSetOf(fuzzer)
    ELSE {}

\* The entries of the mapping whose set holds region.
Coverers(region) ==
    { i \in DOMAIN benchmark_coverage_dict :
        region \in benchmark_coverage_dict[i].val }

\* The mapping of the scenario: a = {r1, r2}, a-x = {r2, r3}.
ScenarioDict ==
    << [key |-> <<"a">>, val |-> {Region(1), Region(2)}],
       [key |-> <<"a", "-", "x">>, val |-> {Region(2), Region(3)}] >>

\* C1: when every name of the fuzzer list is a key of the mapping, the table
\* is square, its row and column labels are the list in the given order, the
\* cell (row, col) is |B \ A| for A the row's and B the column's region set,
\* and a cell whose row and column name the same fuzzer is 0.
PairwiseCellIsSetDifference ==
    (/\ op = "pairwise"
     /\ \A i \in DOMAIN fuzzer_names :
            DictHas(benchmark_coverage_dict, fuzzer_names[i]))
    => /\ pairwise_table.exc = ""
       /\ pairwise_table.index = fuzzer_names
       /\ pairwise_table.columns = fuzzer_names
       /\ DOMAIN pairwise_table.values = DOMAIN fuzzer_names
       /\ \A r \in DOMAIN fuzzer_names :
            /\ DOMAIN pairwise_table.values[r] = DOMAIN fuzzer_names
            /\ \A c \in DOMAIN fuzzer_names :
                 /\ pairwise_table.values[r][c] =
                        Cardinality(RegionSetOf(fuzzer_names[c])
                                    \ RegionSetOf(fuzzer_names[r]))
                 /\ fuzzer_names[r] = fuzzer_names[c]
                        => pairwise_table.values[r][c] = 0

\* The scenario a = {1, 2}, b = {2, 3}: rows and columns [a, b], cells
\* (a,a) = 0, (a,b) = 1, (b,a) = 1, (b,b) = 0.
PairwiseScenarioReached ==
    /\ op = "pairwise"
    /\ benchmark_coverage_dict = ScenarioDict
    /\ fuzzer_names = << <<"a">>, <<"a", "-", "x">> >>
    /\ pairwise_table.exc = ""
    /\ pairwise_table.values = << <<0, 1>>, <<1, 0>> >>

\* C2: a region in exactly one fuzzer's set is a key of the index, with the
\* list of that one fuzzer; a region in two or more sets, or in none, is no
\* key of the index.
UniqueRegionIndexThreshold1 ==
    op \in {"unique_region_dict", "unique_region_cov_df"}
    => /\ DOMAIN unique_region_dict \subseteq Regions
       /\ \A region \in Regions :
            IF Cardinality(Coverers(region)) = 1
            THEN /\ region \in DOMAIN unique_region_dict
                 /\ \A i \in Coverers(region) :
                      unique_region_dict[region] =
                          << benchmark_coverage_dict[i].key >>
            ELSE region \notin DOMAIN unique_region_dict

\* The scenario yields {r1: [a], r3: [a-x]}; r2, covered by both, is left out.
UniqueRegionScenarioReached ==
    /\ op = "unique_region_dict"
    /\ benchmark_coverage_dict = ScenarioDict
    /\ DOMAIN unique_region_dict = {Region(1), Region(3)}
    /\ unique_region_dict[Region(1)] = << <<"a">> >>
    /\ unique_region_dict[Region(3)] = << <<"a", "-", "x">> >>

\* The regions of the index whose owner list holds fuzzer.
OwnedRegions(fuzzer) ==
    { region \in DOMAIN unique_region_dict :
        \E j \in DOMAIN unique_region_dict[region] :
            unique_region_dict[region][j] = fuzzer }

\* C5: the table has one row per name of the caller's list, in list order,
\* with the number of regions of the index the fuzzer owns; a fuzzer that
\* owns none, or is nowhere in the index, has count 0.
UniqueRegionCovDfReportsEveryName ==
    op = "unique_region_cov_df"
    => /\ DOMAIN unique_region_cov_df = DOMAIN fuzzer_names
       /\ \A i \in DOMAIN fuzzer_names :
            /\ unique_region_cov_df[i].fuzzer = fuzzer_names[i]
            /\ unique_region_cov_df[i].unique_regions_covered =
                   Cardinality(OwnedRegions(fuzzer_names[i]))

\* A list naming a fuzzer that owns two regions and a fuzzer that is no key
\* of the mapping, hence nowhere in the index: counts 2 and 0.
ZeroCountRowReached ==
    /\ op = "unique_region_cov_df"
    /\ Len(fuzzer_names) = 2
    /\ ~DictHas(benchmark_coverage_dict, fuzzer_names[2])
    /\ unique_region_cov_df[1].unique_regions_covered = 2
    /\ unique_region_cov_df[2].fuzzer = fuzzer_names[2]
    /\ unique_region_cov_df[2].unique_regions_covered = 0

\* C6: the pairwise table never raises for a name that is no key of the
\* mapping; the absent fuzzer counts as the empty region set and the table
\* is square over the whole list.
PairwiseToleratesAbsentFuzzer ==
    op = "pairwise"
    => /\ pairwise_table.exc = ""
       /\ pairwise_table.index = fuzzer_names
       /\ pairwise_table.columns = fuzzer_names
       /\ DOMAIN pairwise_table.values = DOMAIN fuzzer_names
       /\ \A r \in DOMAIN fuzzer_names :
            /\ DOMAIN pairwise_table.values[r] = DOMAIN fuzzer_names
            /\ \A c \in DOMAIN fuzzer_names :
                 pairwise_table.values[r][c] =
                     Cardinality(RegionSetOrEmpty(fuzzer_names[c])
                                 \ RegionSetOrEmpty(fuzzer_names[r]))

-----------------------------------------------------------------------------
(* Properties of the retrieval (checked under Spec).                       *)

\* The (fuzzer, benchmark) pairs of the experiment.
Pairs == { experiment_df[i] : i \in DOMAIN experiment_df }

CopyFailed(p) == filestore[p].retcode # 0

\* What the retrieval task of pair p returns when it returns: the empty
\* collection after a failed copy, else the regions of the remote document.
OwnResult(p) == IF CopyFailed(p) THEN <<>> ELSE filestore[p].body.json

\* The entries of the combined map whose key decodes to pair p.
EntriesOf(p) ==
    { i \in DOMAIN covered_regions_dict :
        split(covered_regions_dict[i].key) = << p.fuzzer, p.benchmark >> }

TaskPair(i) == [fuzzer |-> tasks[i].fuzzer, benchmark |-> tasks[i].benchmark]

Returned == pc \in {"returned", "aggregated"}

\* The rows of agg_df for fuzzer.
AggRowsOf(fuzzer) ==
    { k \in DOMAIN agg_df.rows : agg_df.rows[k].fuzzer = fuzzer }

\* C3: the aggregate table has exactly one row per fuzzer with an entry for
\* the target benchmark, none for other entries, and each count is the
\* cardinality of the region set get_benchmark_cov_dict builds for the
\* fuzzer, also when the region list repeats a region.
AggregateCountIsSetCardinality ==
    pc = "aggregated"
    => LET cov == get_benchmark_cov_dict(covered_regions_dict, agg_benchmark)
       IN  /\ agg_df.exc = ""
           /\ cov.exc = ""
           /\ \A k \in DOMAIN agg_df.rows :
                \E p \in Pairs : /\ p.benchmark = agg_benchmark
                                 /\ p.fuzzer = agg_df.rows[k].fuzzer
           /\ \A p \in Pairs :
                p.benchmark = agg_benchmark
                => /\ Cardinality(AggRowsOf(p.fuzzer)) = 1
                   /\ \A k \in AggRowsOf(p.fuzzer) :
                        agg_df.rows[k].aggregated_edges_covered =
                            Cardinality(DictGet(cov.dict, p.fuzzer))

\* C4: a task whose copy returned non-zero never opens the scratch file and
\* never raises, and returns the empty collection; the returned map holds the
\* empty collection under the pair's key and every other pair's own result;
\* the call raises only for a pair whose copy succeeded; and the aggregate
\* count of the pair's fuzzer on its benchmark is 0.
FetchFailureYieldsEmpty ==
    /\ \A i \in DOMAIN tasks :
         CopyFailed(TaskPair(i))
         => /\ tasks[i].st \in {"queued", "copying", "done"}
            /\ tasks[i].st = "done" => tasks[i].regions = <<>>
    /\ pc = "raised"
         => \E p \in Pairs : ~CopyFailed(p) /\ ~filestore[p].body.ok
    /\ Returned
         => \A p \in Pairs :
              /\ EntriesOf(p) # {}
              /\ \A i \in EntriesOf(p) :
                   covered_regions_dict[i].val =
                       IF CopyFailed(p) THEN <<>> ELSE filestore[p].body.json
    /\ pc = "aggregated"
         => /\ agg_df.exc = ""
            /\ \A p \in Pairs :
                 (CopyFailed(p) /\ p.benchmark = agg_benchmark)
                 => /\ AggRowsOf(p.fuzzer) # {}
                    /\ \A k \in AggRowsOf(p.fuzzer) :
                         agg_df.rows[k].aggregated_edges_covered = 0

\* The aggregate table of a benchmark on which one fuzzer's copy failed and
\* another fuzzer's copy brought regions.
FailedFetchAggregated ==
    /\ pc = "aggregated"
    /\ \E p, q \in Pairs :
         /\ p.benchmark = agg_benchmark /\ CopyFailed(p)
         /\ q.benchmark = agg_benchmark /\ ~CopyFailed(q)
         /\ \E k \in AggRowsOf(p.fuzzer) :
              agg_df.rows[k].aggregated_edges_covered = 0
         /\ \E k \in AggRowsOf(q.fuzzer) :
              agg_df.rows[k].aggregated_edges_covered > 0

\* C7: the returned map has exactly one entry for every pair of the
\* experiment and no other entry, each holding the result of the pair's own
\* task; being a function of the experiment and the remote store alone, it
\* is the same in every interleaving of the tasks.
CombinedMapComplete ==
    Returned
    => /\ \A p \in Pairs :
            /\ Cardinality(EntriesOf(p)) = 1
            /\ \A i \in EntriesOf(p) :
                 covered_regions_dict[i].val = OwnResult(p)
       /\ \A i \in DOMAIN covered_regions_dict :
            \E p \in Pairs : i \in EntriesOf(p)

\* A returned map of three pairs over two benchmarks, with differing results.
ThreePairMapReturned ==
    /\ pc = "returned"
    /\ Cardinality(Pairs) = 3
    /\ Len(benchmarks) = 2
    /\ Len(covered_regions_dict) = 3
    /\ \E p, q \in Pairs : OwnResult(p) # OwnResult(q)

\* C8: the scratch directory exists while the batch is out and while any
\* task runs, and once the call has ended, by return or by a task's
\* exception, the directory and its files are gone.
ScratchDirLifetime ==
    /\ pc = "map" => temp_dir
    /\ \A i \in DOMAIN tasks : Running(i) => temp_dir
    /\ pc \in {"returned", "raised", "aggregated"}
         => /\ ~temp_dir
            /\ scratch = <<>>
            /\ tasks = <<>>

\* A call that ended by a task's exception, in an experiment where another
\* copy failed and another succeeded.
RaisedCallCleanedUp ==
    /\ pc = "raised"
    /\ ~temp_dir
    /\ \E p \in Pairs : CopyFailed(p)
    /\ \E p \in Pairs : ~CopyFailed(p) /\ filestore[p].body.ok

\* The position of a benchmark in the for loop.
BenchPos(benchmark) ==
    CHOOSE k \in DOMAIN benchmarks : benchmarks[k] = benchmark

\* C9: the map changes only when every task of the dispatched batch is done;
\* a batch is dispatched only when every pair of the earlier benchmarks has
\* its entry; the call returns only when every pair has its entry.
BatchBarrier ==
    [][ /\ covered_regions_dict' # covered_regions_dict
            => /\ pc = "map"
               /\ tasks # <<>>
               /\ \A i \in DOMAIN tasks : tasks[i].st = "done"
        /\ (pc # "map" /\ pc' = "map")
            => \A p \in Pairs :
                 BenchPos(p.benchmark) < bench_idx => EntriesOf(p) # {}
        /\ (pc # "returned" /\ pc' = "returned")
            => \A p \in Pairs : EntriesOf(p) # {} ]_vars

\* The second benchmark's batch is out after a first batch of two tasks was
\* merged.
SecondBatchAfterFirstMerged ==
    /\ pc = "map"
    /\ bench_idx = 2
    /\ Len(covered_regions_dict) = 2

=============================================================================
